---- MODULE Spec2Model ----
(***************************************************************************)
(* Model of backend/app/category_classifier.py: the CategoryClassifier     *)
(* singleton (model store), its load-or-train sequence, the trainer, the   *)
(* prediction entry points and the two text routines.                      *)
(*                                                                         *)
(* Spec is the store with its trainer and its prediction calls, SpecLabels *)
(* the load/train sequence on datasets whose category column is not clean, *)
(* SpecText the calls of _clean_text and _combine on their own.            *)
(* SpecExpense is the store behind the add_expense route of                *)
(* backend/app/main.py, SpecThreads the first accesses of several threads  *)
(* that run CategoryClassifier.__new__ line by line.                       *)
(*                                                                         *)
(* Text is a sequence of one-character strings.  Probabilities are whole   *)
(* numbers of 1/ProbUnits; a confidence is a whole number of               *)
(* 1/(100 * ProbUnits), so that the 0.70 / 0.85 discounts and the 0.40     *)
(* threshold are exact.  The scikit-learn pipeline is external: the        *)
(* distribution predict_proba returns, the scores of a candidate and the   *)
(* failures of the library calls are drawn nondeterministically.           *)
(***************************************************************************)
EXTENDS Integers, Sequences, FiniteSets, TLC

\* ------------------------------------------------------------------ bounds

\* longest description / merchant passed to a prediction call
MaxLen == 1
\* resolution of a class probability: one unit is 1/ProbUnits
ProbUnits == 20
\* most rows with usable text a dataset holds for one category
MaxRowsPerClass == 4
\* most rows with empty feature text a dataset holds for one category
MaxEmptyRows == 1
\* largest cross-validation mean of a candidate, in score units
MaxCvScore == 1
\* largest held-out accuracy of a candidate, in score units
MaxAccScore == 1
\* largest top_n passed to get_top_predictions
MaxTopN == 2
\* cap on the executions of _load_or_train that are counted
MaxLoadRuns == 2
\* the longest argument of _clean_text
MaxTextLen == 3
\* the longest description and the longest merchant of _combine
MaxPartLen == 2
\* most rows of one kind in a dataset whose category column is not clean
MaxRawRows == 3
\* the threads that make the first access together
MaxThreads == 2

\* ------------------------------------------------------- program constants

\* CONFIDENCE_THRESHOLD = 0.40, in hundredths
CONFIDENCE_THRESHOLD == 40
MIN_SAMPLES_PER_CLASS == 3
N_TRAINING_ITERATIONS == 5
\* confidence *= 0.7, in hundredths
ONE_WORD_FACTOR == 70
\* confidence *= 0.85, in hundredths
TWO_WORD_FACTOR == 85
\* random_state = 42 + iteration
BASE_SEED == 42
\* test_size = 0.2: one row in TEST_ONE_IN is held out
TEST_ONE_IN == 5

\* the catch-all category
CatchAll == "Other"

\* ------------------------------------------------------------------- text

\* the characters of the arguments of a prediction call: a letter, a
\* punctuation mark and a white-space character
Chars == {"a", "!", " "}

\* the ASCII letters and digits
UpperCase ==
    <<"A", "B", "C", "D", "E", "F", "G", "H", "I", "J", "K", "L", "M",
      "N", "O", "P", "Q", "R", "S", "T", "U", "V", "W", "X", "Y", "Z">>
LowerCase ==
    <<"a", "b", "c", "d", "e", "f", "g", "h", "i", "j", "k", "l", "m",
      "n", "o", "p", "q", "r", "s", "t", "u", "v", "w", "x", "y", "z">>
LowerLetters == {LowerCase[i] : i \in DOMAIN LowerCase}
Digits == {"0", "1", "2", "3", "4", "5", "6", "7", "8", "9"}

\* str.lower(), on one character
lower(c) ==
    IF \E i \in DOMAIN UpperCase : UpperCase[i] = c
    THEN LowerCase[CHOOSE i \in DOMAIN UpperCase : UpperCase[i] = c]
    ELSE c

\* the characters the class [a-z0-9\s] matches: \s takes the space, the tab
\* and the line feed alike
IsWhitespace(c) == c \in {" ", "\t", "\n"}
IsAlnum(c) == c \in LowerLetters \cup Digits

\* re.sub(r"[^a-z0-9\s]", " ", text)
sub_non_alnum(s) ==
    [i \in DOMAIN s |-> IF IsAlnum(s[i]) \/ IsWhitespace(s[i]) THEN s[i] ELSE " "]

\* re.sub(r"\s+", " ", text): every run of white space becomes one space
RECURSIVE sub_whitespace(_)
sub_whitespace(s) ==
    IF s = <<>> THEN <<>>
    ELSE IF IsWhitespace(Head(s))
         THEN IF Len(s) >= 2 /\ IsWhitespace(s[2])
              THEN sub_whitespace(Tail(s))
              ELSE <<" ">> \o sub_whitespace(Tail(s))
         ELSE <<Head(s)>> \o sub_whitespace(Tail(s))

\* str.strip()
RECURSIVE lstrip(_)
lstrip(s) ==
    IF s # <<>> /\ IsWhitespace(Head(s)) THEN lstrip(Tail(s)) ELSE s

RECURSIVE rstrip(_)
rstrip(s) ==
    IF s # <<>> /\ IsWhitespace(s[Len(s)])
    THEN rstrip(SubSeq(s, 1, Len(s) - 1))
    ELSE s

strip(s) == rstrip(lstrip(s))

\* an absent (None) description or merchant
NoneText == <<"None">>

\* a _clean_text that does not strip the ends
clean_text_unstripped(text) ==
    IF text = NoneText \/ text = <<>> THEN <<>>
    ELSE sub_whitespace(sub_non_alnum([i \in DOMAIN text |-> lower(text[i])]))

\* a _clean_text that replaces the other characters last, after the white
\* space was collapsed and the ends stripped
clean_text_sub_last(text) ==
    IF text = NoneText \/ text = <<>> THEN <<>>
    ELSE sub_non_alnum(strip(sub_whitespace([i \in DOMAIN text |-> lower(text[i])])))

\* CategoryClassifier._clean_text
clean_text(text) ==
    IF text = NoneText \/ text = <<>> THEN <<>>
    ELSE strip(sub_whitespace(sub_non_alnum([i \in DOMAIN text |-> lower(text[i])])))

\* a _combine that returns f"{d} {d} {m}" as it is
combine_unstripped(description, merchant) ==
    LET d == clean_text(description)
        m == clean_text(merchant)
    IN  d \o <<" ">> \o d \o <<" ">> \o m

\* a feature text that holds the description once
combine_once(description, merchant) ==
    LET d == clean_text(description)
        m == clean_text(merchant)
    IN  strip(d \o <<" ">> \o m)

\* CategoryClassifier._combine: f"{d} {d} {m}".strip()
combine(description, merchant) ==
    LET d == clean_text(description)
        m == clean_text(merchant)
    IN  strip(d \o <<" ">> \o d \o <<" ">> \o m)

\* len(text.split()): the number of maximal runs of non-white-space
RECURSIVE word_count(_)
word_count(s) ==
    IF s = <<>> THEN 0
    ELSE IF IsWhitespace(Head(s)) THEN word_count(Tail(s))
    ELSE IF Len(s) >= 2 /\ ~IsWhitespace(s[2]) THEN word_count(Tail(s))
    ELSE 1 + word_count(Tail(s))

\* the strings of length at most n over Chars
RECURSIVE TextsUpTo(_)
TextsUpTo(n) ==
    IF n = 0 THEN {<<>>}
    ELSE LET shorter == TextsUpTo(n - 1)
         IN  shorter \cup {Append(s, c) : s \in {t \in shorter : Len(t) = n - 1}, c \in Chars}

\* what a caller passes as description or merchant
Inputs == TextsUpTo(MaxLen) \cup {NoneText}

\* the feature texts the prediction calls build from those arguments
FeatureTexts == {combine(description, merchant) : description \in Inputs, merchant \in Inputs}

\* ------------------------------------------------------------- pipelines

\* the categories of the datasets, in the order np.unique sorts them
LabelOrder == <<"Food", "Rent", "Travel">>
Labels == {LabelOrder[i] : i \in DOMAIN LabelOrder}

\* every label a class can bear, in the order np.unique sorts strings: the
\* empty label first, upper case before lower case
ClassOrder == <<"", "Food", "Rent", "Travel", "nan">>

\* pipeline.classes_ of a pipeline fitted on the categories cs
classes_of(cs) == SelectSeq(ClassOrder, LAMBDA c : c \in cs)

\* self.pipeline = None
NoPipeline == [seed |-> 0, classes |-> <<>>, origin |-> "none"]

\* Pipeline([("tfidf", ...), ("clf", LogisticRegression(random_state=42 + iteration))])
NewPipeline(iteration, cs) ==
    [seed |-> BASE_SEED + iteration, classes |-> classes_of(cs), origin |-> "trained"]

\* a pipeline some earlier process left in model.pkl
PriorPipeline == [seed |-> BASE_SEED, classes |-> LabelOrder, origin |-> "disk"]

\* a key the persisted dictionary does not hold
NoKey == -1

\* the file at MODEL_PATH
MissingArtifact == [kind |-> "missing", pipeline |-> NoPipeline, accuracy |-> NoKey, cv_score |-> NoKey]
\* a file joblib.load cannot read back (truncated, written by another version)
CorruptArtifact == [kind |-> "corrupt", pipeline |-> NoPipeline, accuracy |-> NoKey, cv_score |-> NoKey]
\* a readable pickle that holds no "pipeline" entry
KeylessArtifact == [kind |-> "keyless", pipeline |-> NoPipeline, accuracy |-> NoKey, cv_score |-> NoKey]

\* a bundle whose two scores are stored under each other's key
BundleScoresSwapped(p, acc, cv) ==
    [kind |-> "bundle", pipeline |-> p, accuracy |-> cv, cv_score |-> acc]

\* joblib.dump({"pipeline": ..., "accuracy": ..., "cv_score": ...}, MODEL_PATH)
Bundle(p, acc, cv) == [kind |-> "bundle", pipeline |-> p, accuracy |-> acc, cv_score |-> cv]

\* what MODEL_PATH can hold when the process starts
InitialArtifacts ==
    {MissingArtifact, CorruptArtifact, KeylessArtifact}
    \cup {Bundle(PriorPipeline, a, MaxCvScore) : a \in (0..MaxAccScore) \cup {NoKey}}

\* ---------------------------------------------------------------- dataset

\* the columns training requires
required == {"description", "merchant", "category"}

\* a field pd.read_csv found empty
NaN == <<"NaN">>

\* df[column].fillna("")
fillna(field) == IF field = NaN THEN <<>> ELSE field

\* df["category"].astype(str): a missing field becomes the string "nan"
astype_str(field) == IF field = NaN THEN <<"nan">> ELSE field

\* df["category"].astype(str).str.strip(), as a label. A category field is a
\* sequence of white-space characters and at most one word, the word being
\* one element.
category_label(field) ==
    LET stripped == strip(astype_str(field))
    IN  IF stripped = <<>> THEN "" ELSE stripped[1]

\* the kinds of row of transactions.csv: a description with usable text or
\* one that is all punctuation, no merchant, one of the categories
RowKinds ==
    [description : {<<"a">>, <<"!">>}, merchant : {<<>>}, category : {<<c>> : c \in Labels}]

\* df.apply(lambda r: self._combine(r["description"], r["merchant"]), axis=1)
row_text(r) == combine(fillna(r.description), fillna(r.merchant))

\* the files pd.read_csv(DATA_PATH) can find: unreadable, lacking a required
\* column, or complete with every multiset of rows within the bounds
Datasets ==
    {[readable |-> FALSE, columns |-> required, rows |-> [r \in RowKinds |-> 0]]}
    \cup {[readable |-> TRUE, columns |-> cols, rows |-> [r \in RowKinds |-> 0]] :
            cols \in (SUBSET required) \ {required}}
    \cup {[readable |-> TRUE, columns |-> required, rows |-> rows] :
            rows \in {f \in [RowKinds -> 0..MaxRowsPerClass] :
                        \A r \in RowKinds : row_text(r) = <<>> => f[r] <= MaxEmptyRows}}

RECURSIVE SumOver(_, _)
SumOver(f, S) ==
    IF S = {} THEN 0
    ELSE LET x == CHOOSE y \in S : TRUE IN f[x] + SumOver(f, S \ {x})

\* the labels of the rows of a dataset
labels_of(rows) == {category_label(r.category) : r \in DOMAIN rows}

\* df = df[df["text"] != ""]; counts = df["category"].value_counts()
value_counts(rows) ==
    [c \in labels_of(rows) |->
        SumOver(rows, {r \in DOMAIN rows :
                          category_label(r.category) = c /\ row_text(r) # <<>>})]

\* a filter that keeps a category one row short of the minimum
nearly_strong_classes(rows) ==
    {c \in labels_of(rows) : value_counts(rows)[c] >= MIN_SAMPLES_PER_CLASS - 1}

\* counts[counts >= MIN_SAMPLES_PER_CLASS].index
strong_classes(rows) ==
    {c \in labels_of(rows) : value_counts(rows)[c] >= MIN_SAMPLES_PER_CLASS}

\* len(df) after both filters
training_rows(rows) == SumOver(value_counts(rows), strong_classes(rows))

\* sklearn train_test_split(test_size=0.2, stratify=y): n_test = ceil(0.2 n),
\* n_train = n - n_test; it raises when the train set is empty or when either
\* part has fewer rows than there are classes
n_test(n) == (n + TEST_ONE_IN - 1) \div TEST_ONE_IN
split_raises(n, k) ==
    \/ n - n_test(n) = 0
    \/ n - n_test(n) < k
    \/ n_test(n) < k

\* ------------------------------------------------------------------ state

VARIABLES
    instance,   \* CategoryClassifier._instance is not None
    pipeline,   \* CategoryClassifier._instance.pipeline
    artifact,   \* the file at MODEL_PATH
    pc,         \* where the call that constructs the instance stands
    loc,        \* the local variables of _train_and_save
    hist,       \* what the load/train sequence has done so far (history)
    last,       \* the outcome of the call that just ended, until the caller takes it
    threads     \* the threads that are inside CategoryClassifier.__new__ together

vars == <<instance, pipeline, artifact, pc, loc, hist, last, threads>>

\* the locals of _train_and_save before the loop: the categories kept and
\* the categories dropped by the filter of lines 91-92, the loop counter,
\* the scores of the candidate of the latest iteration, and the best so far.
\* cv_max is no variable of the code: it records the highest cross-validation
\* mean among the candidates fitted so far.
NoLocals ==
    [classes |-> {}, dropped |-> {}, iteration |-> 0, test_acc |-> 0, cv_mean |-> 0,
     best_pipeline |-> NoPipeline, best_accuracy |-> 0, best_cv_score |-> 0,
     cv_max |-> 0]

\* no dataset has been read yet
NoDataset == [read |-> FALSE, readable |-> FALSE, columns |-> {}, classes |-> 0]

\* the categories of a dataset that have a row but fewer than
\* MIN_SAMPLES_PER_CLASS rows with a non-empty feature text
weak_classes(rows) ==
    {c \in labels_of(rows) :
        /\ SumOver(rows, {r \in DOMAIN rows : category_label(r.category) = c}) > 0
        /\ value_counts(rows)[c] < MIN_SAMPLES_PER_CLASS}

\* what pd.read_csv found: whether the file could be read, its columns, and
\* the number of categories that survive both filters
Observed(ds) ==
    [read |-> TRUE, readable |-> ds.readable, columns |-> ds.columns,
     classes |-> IF ds.readable /\ required \subseteq ds.columns
                 THEN Cardinality(strong_classes(ds.rows)) ELSE 0]

\* the history of the store: the runs of _load_or_train and _train_and_save
\* and how they ended, the dataset the trainer read, and the weak
\* categories of the dataset the adopted pipeline was trained on
NoHist ==
    [loadRuns |-> 0, load |-> "none", trainRuns |-> 0, split |-> FALSE,
     fits |-> 0, dump |-> "none", train |-> "none", dataset |-> NoDataset,
     dropped |-> {}]

\* a call's outcome: the exception it raised ("none" when it returned), the
\* (category, confidence) of predict, the list of get_top_predictions, and
\* what the call read: the feature text, the distribution, the number of
\* predict_proba calls, top_n; for a call of a text routine, its arguments
\* and the text it returned; for add_expense, the category the user sent and
\* the values given to the two category columns of the new row
Outcome(op, raised) ==
    [op |-> op, raised |-> raised, category |-> "", confidence |-> 0, top |-> <<>>,
     text |-> <<>>, proba |-> <<>>, probaCalls |-> 0, top_n |-> 0,
     args |-> <<>>, value |-> <<>>,
     user_category |-> "", category_column |-> <<>>, predicted_column |-> <<>>]

NoOutcome == Outcome("none", "none")

\* no thread is inside __new__: the calls of one thread are whole steps
NoThreads == <<>>

Init ==
    /\ instance = FALSE
    /\ pipeline = NoPipeline
    /\ artifact \in InitialArtifacts
    /\ pc = "idle"
    /\ loc = NoLocals
    /\ hist = NoHist
    /\ last = NoOutcome
    /\ threads = NoThreads

\* ------------------------------------------------------ the model store

\* a store that also builds a new instance when the kept one has no pipeline
no_usable_instance == ~instance \/ pipeline = NoPipeline

\* a test that also asks for a new load when the artifact is not usable
no_instance_or_no_artifact == ~instance \/ artifact.kind \in {"missing", "corrupt"}

\* cls._instance is None
no_instance == ~instance

\* os.path.exists(MODEL_PATH)
path_exists(a) == a.kind # "missing"

\* a load that refuses an artifact whose recorded accuracy is the lowest
load_raises_on_low_accuracy(a) ==
    \/ a.kind \in {"corrupt", "keyless"}
    \/ a.kind = "bundle" /\ a.accuracy \in {NoKey, 0}

\* the try block of _load_or_train raises: joblib.load fails, data["pipeline"]
\* is a KeyError, or the accuracy 'N/A' does not take the format :.3f
load_raises(a) ==
    \/ a.kind \in {"corrupt", "keyless"}
    \/ a.kind = "bundle" /\ a.accuracy = NoKey

\* self.pipeline when the try block is left: the assignment of line 39 is
\* done before the print of line 40 can raise
pipeline_after_load(a) ==
    IF path_exists(a) /\ a.kind = "bundle" THEN a.pipeline ELSE NoPipeline

\* an exception leaves the constructing call: the instance stays as it is
Raise(err, h) ==
    /\ pc' = "idle"
    /\ loc' = NoLocals
    /\ hist' = [h EXCEPT !.train = err]
    /\ last' = Outcome("CategoryClassifier", err)

\* a _load_or_train whose except clause lets the load error through
load_or_train_reraise(op) ==
    LET h == [hist EXCEPT !.loadRuns = @ + 1] IN
    /\ pipeline' = pipeline_after_load(artifact)
    /\ IF path_exists(artifact) /\ ~load_raises(artifact)
       THEN /\ pc' = "idle"
            /\ hist' = [h EXCEPT !.load = "loaded"]
            /\ last' = Outcome(op, "none")
            /\ UNCHANGED loc
       ELSE IF path_exists(artifact)
       THEN /\ pc' = "idle"
            /\ hist' = [h EXCEPT !.load = "failed"]
            /\ last' = Outcome(op, "load")
            /\ UNCHANGED loc
       ELSE /\ pc' = "read"
            /\ hist' = [h EXCEPT !.load = "absent", !.trainRuns = @ + 1, !.train = "running"]
            /\ loc' = NoLocals
            /\ UNCHANGED last
    /\ UNCHANGED artifact

\* CategoryClassifier._load_or_train, up to the call of _train_and_save
load_or_train(op) ==
    LET h == [hist EXCEPT !.loadRuns = @ + 1] IN
    /\ pipeline' = pipeline_after_load(artifact)
    /\ IF path_exists(artifact) /\ ~load_raises(artifact)
       THEN /\ pc' = "idle"
            /\ hist' = [h EXCEPT !.load = "loaded"]
            /\ last' = Outcome(op, "none")
            /\ UNCHANGED loc
       ELSE /\ pc' = "read"
            /\ hist' = [h EXCEPT !.load = IF path_exists(artifact) THEN "failed" ELSE "absent",
                                 !.trainRuns = @ + 1, !.train = "running"]
            /\ loc' = NoLocals
            /\ UNCHANGED last
    /\ UNCHANGED artifact

\* CategoryClassifier.__new__; op names the call that reached it. A call that
\* ends inside _train_and_save is reported as the constructor's outcome.
New(op) ==
    /\ UNCHANGED threads
    /\ pc = "idle"
    /\ last = NoOutcome
    /\ IF no_instance
       THEN /\ hist.loadRuns < MaxLoadRuns
            /\ instance' = TRUE
            /\ load_or_train(op)
       ELSE /\ last' = Outcome(op, "none")
            /\ UNCHANGED <<instance, pipeline, artifact, pc, loc, hist>>

\* classifier = CategoryClassifier()
Construct == New("CategoryClassifier")

\* get_classifier()
GetClassifier == New("get_classifier")

\* ------------------------------------------------------------ the trainer

\* a validation that looks for the label column only
has_category_only(columns) == "category" \in columns

\* required.issubset(df.columns)
has_required(columns) == required \subseteq columns

\* _train_and_save, lines 73-107: read, validate, filter, split, for a
\* transactions.csv that is one of datasets
ReadFrom(datasets) ==
    /\ UNCHANGED threads
    /\ pc = "read"
    /\ \E ds \in datasets :
        LET h == [hist EXCEPT !.dataset = Observed(ds)] IN
        IF ~ds.readable THEN Raise("read_csv", h)
        ELSE IF ~has_required(ds.columns) THEN Raise("columns", h)
        ELSE IF split_raises(training_rows(ds.rows), Cardinality(strong_classes(ds.rows)))
             THEN Raise("train_test_split", h)
        ELSE /\ pc' = "fit"
             /\ loc' = [NoLocals EXCEPT !.classes = strong_classes(ds.rows),
                                        !.dropped = weak_classes(ds.rows)]
             /\ hist' = [h EXCEPT !.split = TRUE]
             /\ UNCHANGED last
    /\ UNCHANGED <<instance, pipeline, artifact>>

ReadDataset == ReadFrom(Datasets)

\* what one iteration of the loop can meet: pipeline.fit raises, or
\* cross_val_score raises, or both return and the candidate has its scores
FitResults ==
    {[raises |-> r, test_acc |-> 0, cv_mean |-> 0] : r \in {"fit", "cross_val_score"}}
    \cup {[raises |-> "none", test_acc |-> a, cv_mean |-> c] :
            a \in 0..MaxAccScore, c \in 0..MaxCvScore}

\* LogisticRegression.fit needs samples of at least two classes
fit_can_succeed(cs) == Cardinality(cs) >= 2

\* if cv_mean > best_cv_score: keep the candidate
keep_best(l, candidate, test_acc, cv_mean) ==
    IF cv_mean > l.best_cv_score
    THEN [l EXCEPT !.best_cv_score = cv_mean, !.best_accuracy = test_acc,
                   !.best_pipeline = candidate]
    ELSE l

\* _train_and_save, lines 115-160: one iteration of the loop
FitCandidate ==
    /\ UNCHANGED threads
    /\ pc = "fit"
    /\ loc.iteration < N_TRAINING_ITERATIONS
    /\ \E res \in FitResults :
        IF res.raises = "fit" \/ ~fit_can_succeed(loc.classes)
        THEN Raise("fit", hist)
        ELSE IF res.raises = "cross_val_score"
        THEN Raise("cross_val_score", [hist EXCEPT !.fits = @ + 1])
        ELSE /\ loc' = [keep_best(loc, NewPipeline(loc.iteration, loc.classes),
                                  res.test_acc, res.cv_mean)
                          EXCEPT !.iteration = @ + 1, !.test_acc = res.test_acc,
                                 !.cv_mean = res.cv_mean,
                                 !.cv_max = IF res.cv_mean > @ THEN res.cv_mean ELSE @]
             /\ hist' = [hist EXCEPT !.fits = @ + 1]
             /\ pc' = IF loc.iteration + 1 = N_TRAINING_ITERATIONS THEN "save" ELSE "fit"
             /\ UNCHANGED last
    /\ UNCHANGED <<instance, pipeline, artifact>>

\* what joblib.dump can do to MODEL_PATH: write it, fail before the file is
\* opened, or fail after the file was truncated
DumpResults == {"ok", "failed_untouched", "failed_truncated"}

\* the pipeline the instance holds once joblib.dump has raised: the
\* assignment of line 179 is not reached
pipeline_after_failed_dump(old, best) == old

\* _train_and_save, lines 162-180: report, save and adopt the best candidate
SaveBest ==
    /\ UNCHANGED threads
    /\ pc = "save"
    /\ IF loc.best_pipeline = NoPipeline
       THEN /\ Raise("best_pipeline_is_None", hist)
            /\ UNCHANGED <<pipeline, artifact>>
       ELSE \E dump \in DumpResults :
            IF dump = "ok"
            THEN /\ artifact' = Bundle(loc.best_pipeline, loc.best_accuracy, loc.best_cv_score)
                 /\ pipeline' = loc.best_pipeline
                 /\ pc' = "idle"
                 /\ loc' = NoLocals
                 /\ hist' = [hist EXCEPT !.dump = "ok", !.train = "ok",
                                         !.dropped = loc.dropped]
                 /\ last' = Outcome("CategoryClassifier", "none")
            ELSE /\ artifact' = IF dump = "failed_truncated" THEN CorruptArtifact ELSE artifact
                 /\ pipeline' = pipeline_after_failed_dump(pipeline, loc.best_pipeline)
                 /\ Raise("dump", [hist EXCEPT !.dump = "failed"])
    /\ UNCHANGED instance

\* ---------------------------------------------------------- the predictor

\* the distributions over k classes, in units of 1/ProbUnits
RECURSIVE Dists(_, _)
Dists(k, total) ==
    IF k = 0 THEN IF total = 0 THEN {<<>>} ELSE {}
    ELSE IF k = 1 THEN {<<total>>}
    ELSE UNION {{<<x>> \o rest : rest \in Dists(k - 1, total - x)} : x \in 0..total}

\* self.pipeline.predict_proba([text])[0] can be any distribution over classes_
predict_proba == [k \in 0..Len(LabelOrder) |-> Dists(k, ProbUnits)]

\* np.max(proba)
RECURSIVE np_max(_)
np_max(proba) ==
    IF Len(proba) = 1 THEN proba[1]
    ELSE LET m == np_max(Tail(proba)) IN IF Head(proba) >= m THEN Head(proba) ELSE m

\* np.argmax(proba): the first index that holds the maximum
np_argmax(proba) ==
    CHOOSE i \in DOMAIN proba :
        /\ proba[i] = np_max(proba)
        /\ \A j \in DOMAIN proba : proba[j] = np_max(proba) => i <= j

\* a discount whose first branch also takes the two-word texts
discount_two_as_one(text) ==
    IF word_count(text) <= 2 THEN ONE_WORD_FACTOR ELSE 100

\* the hundredths the confidence is multiplied by, lines 199-203
discount(text) ==
    IF word_count(text) <= 1 THEN ONE_WORD_FACTOR
    ELSE IF word_count(text) = 2 THEN TWO_WORD_FACTOR
    ELSE 100

\* a threshold that also rejects a confidence equal to it
below_or_at_threshold(confidence) == confidence <= CONFIDENCE_THRESHOLD * ProbUnits

\* confidence < CONFIDENCE_THRESHOLD
below_threshold(confidence) == confidence < CONFIDENCE_THRESHOLD * ProbUnits

\* a predictor that never checks the pipeline
never_not_pipeline(p) == FALSE

\* not self.pipeline
not_pipeline(p) == p = NoPipeline

\* a predict without the short cut for an empty feature text
never_not_text(text) == FALSE

\* `if not text` of predict, line 191
not_text(text) == text = <<>>

\* CategoryClassifier.predict on the feature text of its arguments, with the
\* distribution the pipeline returns when it is asked
predict(p, text, proba) ==
    IF not_pipeline(p)
    THEN [Outcome("predict", "RuntimeError") EXCEPT !.text = text]
    ELSE IF not_text(text)
    THEN [Outcome("predict", "none") EXCEPT !.text = text, !.category = CatchAll,
                                            !.confidence = 0]
    ELSE LET pred == p.classes[np_argmax(proba)]
             confidence == np_max(proba) * discount(text)
         IN  [Outcome("predict", "none") EXCEPT
                 !.text = text, !.proba = proba, !.probaCalls = 1,
                 !.category = IF below_threshold(confidence) THEN CatchAll ELSE pred,
                 !.confidence = confidence]

\* the distributions a call can get: none when predict_proba is not reached
proba_for(p, text) ==
    IF not_pipeline(p) \/ not_text(text) THEN {<<>>} ELSE predict_proba[Len(p.classes)]

\* classifier.predict(description, merchant)
Predict ==
    /\ UNCHANGED threads
    /\ pc = "idle"
    /\ last = NoOutcome
    /\ instance
    /\ \E text \in FeatureTexts :
       \E proba \in proba_for(pipeline, text) :
          last' = predict(pipeline, text, proba)
    /\ UNCHANGED <<instance, pipeline, artifact, pc, loc, hist>>

\* CategoryClassifier.predict_simple: self.predict(description, merchant)[0]
predict_simple(p, text, proba) ==
    LET answer == predict(p, text, proba)
    IN  [Outcome("predict_simple", answer.raised) EXCEPT
            !.text = text, !.probaCalls = answer.probaCalls,
            !.category = answer.category]

\* classifier.predict_simple(description, merchant)
PredictSimple ==
    /\ UNCHANGED threads
    /\ pc = "idle"
    /\ last = NoOutcome
    /\ instance
    /\ \E text \in FeatureTexts :
       \E proba \in proba_for(pipeline, text) :
          last' = predict_simple(pipeline, text, proba)
    /\ UNCHANGED <<instance, pipeline, artifact, pc, loc, hist>>

\* the permutations of 1..k
Perms(k) == {f \in [1..k -> 1..k] : \A i, j \in 1..k : i # j => f[i] # f[j]}

\* np.argsort(proba): an ascending order; numpy's default sort is not stable,
\* so equal probabilities may come in any order
np_argsort(proba) ==
    {f \in Perms(Len(proba)) :
        \A i, j \in 1..Len(proba) : i < j => proba[f[i]] <= proba[f[j]]}

\* seq[-n:]
last_n(seq, n) ==
    IF n = 0 \/ n >= Len(seq) THEN seq ELSE SubSeq(seq, Len(seq) - n + 1, Len(seq))

\* seq[::-1]
reversed(seq) == [i \in 1..Len(seq) |-> seq[Len(seq) + 1 - i]]

\* a get_top_predictions that treats every entry the way predict treats its
\* answer: the length discount, and "Other" below the threshold
get_top_predictions_like_predict(p, text, top_n, proba, order) ==
    IF not_pipeline(p)
    THEN [Outcome("get_top_predictions", "RuntimeError") EXCEPT !.text = text, !.top_n = top_n]
    ELSE IF not_text(text)
    THEN [Outcome("get_top_predictions", "none") EXCEPT
             !.text = text, !.top_n = top_n, !.top = << <<CatchAll, 0>> >>]
    ELSE LET top_indices == reversed(last_n(order, top_n))
             confidence(i) == proba[top_indices[i]] * discount(text)
         IN  [Outcome("get_top_predictions", "none") EXCEPT
                 !.text = text, !.top_n = top_n, !.proba = proba, !.probaCalls = 1,
                 !.top = [i \in 1..Len(top_indices) |->
                            <<IF below_threshold(confidence(i))
                              THEN CatchAll ELSE p.classes[top_indices[i]],
                              confidence(i)>>]]

\* CategoryClassifier.get_top_predictions
get_top_predictions(p, text, top_n, proba, order) ==
    IF not_pipeline(p)
    THEN [Outcome("get_top_predictions", "RuntimeError") EXCEPT !.text = text, !.top_n = top_n]
    ELSE IF not_text(text)
    THEN [Outcome("get_top_predictions", "none") EXCEPT
             !.text = text, !.top_n = top_n, !.top = << <<CatchAll, 0>> >>]
    ELSE LET top_indices == reversed(last_n(order, top_n))
         IN  [Outcome("get_top_predictions", "none") EXCEPT
                 !.text = text, !.top_n = top_n, !.proba = proba, !.probaCalls = 1,
                 !.top = [i \in 1..Len(top_indices) |->
                            <<p.classes[top_indices[i]], proba[top_indices[i]] * 100>>]]

\* classifier.get_top_predictions(description, merchant, top_n)
GetTopPredictions ==
    /\ UNCHANGED threads
    /\ pc = "idle"
    /\ last = NoOutcome
    /\ instance
    /\ \E text \in FeatureTexts, top_n \in 0..MaxTopN :
       \E proba \in proba_for(pipeline, text) :
       \E order \in np_argsort(proba) :
          last' = get_top_predictions(pipeline, text, top_n, proba, order)
    /\ UNCHANGED <<instance, pipeline, artifact, pc, loc, hist>>

\* ---------------------------------------------------------- specification

\* the caller takes the value or the exception of the call that just ended
TakeResult ==
    /\ UNCHANGED threads
    /\ pc = "idle"
    /\ last # NoOutcome
    /\ last' = NoOutcome
    /\ UNCHANGED <<instance, pipeline, artifact, pc, loc, hist>>

Next ==
    \/ Construct
    \/ GetClassifier
    \/ ReadDataset
    \/ FitCandidate
    \/ SaveBest
    \/ Predict
    \/ PredictSimple
    \/ GetTopPredictions
    \/ TakeResult

Spec == Init /\ [][Next]_vars

\* ---------------------------------------------------- the category column

\* what the category field of a row can hold: a category, a category with
\* white space around it, white space only, or nothing
RawCategories == {<<"Food">>, <<" ", "Food", "\t">>, <<"Rent">>, <<" ">>, NaN}

\* the kinds of row of a transactions.csv whose category column is not clean
RawRowKinds == [description : {<<"a">>}, merchant : {<<>>}, category : RawCategories]

\* the datasets with up to MaxRawRows rows of each kind
RawDatasets ==
    {[readable |-> TRUE, columns |-> required, rows |-> rows] :
        rows \in [RawRowKinds -> 0..MaxRawRows]}

ReadRawDataset == ReadFrom(RawDatasets)

\* the load/train sequence on such a dataset
LabelsNext ==
    \/ Construct
    \/ ReadRawDataset
    \/ FitCandidate
    \/ SaveBest
    \/ TakeResult

SpecLabels == Init /\ [][LabelsNext]_vars

\* ------------------------------------------------------ the text routines

\* the characters of the arguments of a text routine: a lower-case and an
\* upper-case letter, a digit, a punctuation mark, a space and a tab
TextChars == {"a", "B", "7", "!", " ", "\t"}

\* the strings of length at most n over chars
RECURSIVE StringsUpTo(_, _)
StringsUpTo(chars, n) ==
    IF n = 0 THEN {<<>>}
    ELSE LET shorter == StringsUpTo(chars, n - 1)
         IN  shorter \cup {Append(t, c) : t \in {u \in shorter : Len(u) = n - 1}, c \in chars}

\* what _clean_text can be called with
CleanInputs == StringsUpTo(TextChars, MaxTextLen) \cup {NoneText}

\* what _combine can be called with, as description or as merchant
CombineInputs == StringsUpTo(TextChars, MaxPartLen) \cup {NoneText}

\* a call of _clean_text or of _combine has been entered with its arguments
TextInit ==
    /\ instance = FALSE
    /\ pipeline = NoPipeline
    /\ artifact = MissingArtifact
    /\ loc = NoLocals
    /\ hist = NoHist
    /\ threads = NoThreads
    /\ \/ /\ pc = "_clean_text"
          /\ \E text \in CleanInputs : last = [NoOutcome EXCEPT !.args = <<text>>]
       \/ /\ pc = "_combine"
          /\ \E description \in CombineInputs, merchant \in CombineInputs :
                last = [NoOutcome EXCEPT !.args = <<description, merchant>>]

\* self._clean_text(text)
CleanText ==
    /\ UNCHANGED threads
    /\ pc = "_clean_text"
    /\ pc' = "idle"
    /\ last' = [Outcome("_clean_text", "none") EXCEPT
                   !.args = last.args, !.value = clean_text(last.args[1])]
    /\ UNCHANGED <<instance, pipeline, artifact, loc, hist>>

\* self._clean_text(text) once more, on the text the first call returned
CleanAgain ==
    /\ UNCHANGED threads
    /\ pc = "idle"
    /\ last.op = "_clean_text"
    /\ Len(last.args) = 1
    /\ last' = [last EXCEPT !.args = Append(@, last.value),
                            !.value = clean_text(last.value)]
    /\ UNCHANGED <<instance, pipeline, artifact, pc, loc, hist>>

\* self._combine(description, merchant)
Combine ==
    /\ UNCHANGED threads
    /\ pc = "_combine"
    /\ pc' = "idle"
    /\ last' = [Outcome("_combine", "none") EXCEPT
                   !.args = last.args, !.value = combine(last.args[1], last.args[2])]
    /\ UNCHANGED <<instance, pipeline, artifact, loc, hist>>

TextNext ==
    \/ CleanText
    \/ CleanAgain
    \/ Combine

SpecText == TextInit /\ [][TextNext]_vars

\* ------------------------------------------------------ the expense route

\* a column value is a sequence: <<label>> is a text value, <<label,
\* confidence>> the pair predict returns, <<>> no value at all

\* expense_in.category: absent, or a category of the user's
UserCategories == {"", "Rent"}

\* a value a String column takes as it is
is_text_value(value) == Len(value) = 1

\* what db.commit() can do with a row: values that are not text are either
\* refused by the driver or written in some converted form
CommitResults(row) ==
    IF is_text_value(row.category) /\ is_text_value(row.predicted_category)
    THEN {"stored"}
    ELSE {"stored", "raises"}

\* add_expense, lines 524-538: predicted is whatever classifier.predict
\* returned, the (category, confidence) pair; `expense_in.category or
\* predicted` takes the user's category unless it is absent or empty
new_expense(answer, user_category) ==
    LET predicted == <<answer.category, answer.confidence>>
    IN  [category |-> IF user_category # "" THEN <<user_category>> ELSE predicted,
         predicted_category |-> predicted]

\* add_expense(expense_in)
add_expense(p, text, proba, user_category, commit) ==
    LET answer == predict(p, text, proba)
        row    == new_expense(answer, user_category)
    IN  IF answer.raised # "none"
        THEN [Outcome("add_expense", answer.raised) EXCEPT
                 !.text = text, !.user_category = user_category]
        ELSE [Outcome("add_expense", IF commit = "raises" THEN "commit" ELSE "none")
              EXCEPT !.text = text, !.proba = proba, !.probaCalls = answer.probaCalls,
                     !.category = answer.category, !.confidence = answer.confidence,
                     !.user_category = user_category,
                     !.category_column = row.category,
                     !.predicted_column = row.predicted_category]

\* POST /expenses
AddExpense ==
    /\ UNCHANGED threads
    /\ pc = "idle"
    /\ last = NoOutcome
    /\ instance
    /\ \E text \in FeatureTexts, user_category \in UserCategories :
       \E proba \in proba_for(pipeline, text) :
       \E commit \in CommitResults(new_expense(predict(pipeline, text, proba),
                                               user_category)) :
          last' = add_expense(pipeline, text, proba, user_category, commit)
    /\ UNCHANGED <<instance, pipeline, artifact, pc, loc, hist>>

\* the process of main.py: the classifier built at import, then requests
ExpenseNext ==
    \/ Construct
    \/ ReadDataset
    \/ FitCandidate
    \/ SaveBest
    \/ AddExpense
    \/ TakeResult

SpecExpense == Init /\ [][ExpenseNext]_vars

\* ------------------------------------------- concurrent first accesses

\* CategoryClassifier.__new__ takes no lock, so the threads that call it
\* interleave between its lines.  cls._instance is read again on each of the
\* lines 27-30; self is bound when _load_or_train is entered.  instance and
\* pipeline are cls._instance and the pipeline of the object it refers to.
Threads == 1..MaxThreads

\* a thread about to evaluate `cls._instance is None`: pc is its position,
\* self_is_instance whether the object its _load_or_train runs on is still
\* the one cls._instance refers to, handed what it was given back
EnteringThread ==
    [pc |-> "line 26", self_is_instance |-> FALSE,
     handed |-> [returned |-> FALSE, unset |-> FALSE, loading |-> FALSE]]

\* some thread is inside _load_or_train
loading_elsewhere(t) ==
    \E u \in Threads \ {t} : threads[u].pc \in {"line 36", "line 38"}

\* the artifact is present and loads, so that _load_or_train does not train
ThreadsInit ==
    /\ instance = FALSE
    /\ pipeline = NoPipeline
    /\ artifact \in {a \in InitialArtifacts : path_exists(a) /\ ~load_raises(a)}
    /\ pc = "idle"
    /\ loc = NoLocals
    /\ hist = NoHist
    /\ last = NoOutcome
    /\ threads = [t \in Threads |-> EnteringThread]

\* line 26: if cls._instance is None
CheckInstance(t) ==
    /\ threads[t].pc = "line 26"
    /\ threads' = [threads EXCEPT ![t].pc = IF no_instance THEN "line 27" ELSE "line 30"]
    /\ UNCHANGED <<instance, pipeline, artifact, pc, loc, hist, last>>

\* line 27: cls._instance = super().__new__(cls), an object without pipeline;
\* the object another thread is loading into is no longer the instance
CreateInstance(t) ==
    /\ threads[t].pc = "line 27"
    /\ instance' = TRUE
    /\ pipeline' = NoPipeline
    /\ threads' = [u \in Threads |->
                      IF u = t THEN [threads[u] EXCEPT !.pc = "line 28"]
                      ELSE [threads[u] EXCEPT !.self_is_instance = FALSE]]
    /\ UNCHANGED <<artifact, pc, loc, hist, last>>

\* line 28: cls._instance.pipeline = None
ClearPipeline(t) ==
    /\ threads[t].pc = "line 28"
    /\ pipeline' = NoPipeline
    /\ threads' = [threads EXCEPT ![t].pc = "line 29"]
    /\ UNCHANGED <<instance, artifact, pc, loc, hist, last>>

\* line 29: cls._instance._load_or_train() is entered
EnterLoadOrTrain(t) ==
    /\ threads[t].pc = "line 29"
    /\ hist' = [hist EXCEPT !.loadRuns = @ + 1]
    /\ threads' = [threads EXCEPT ![t].pc = "line 36", ![t].self_is_instance = TRUE]
    /\ UNCHANGED <<instance, pipeline, artifact, pc, loc, last>>

\* lines 36-38: the file exists and joblib.load reads it
LoadArtifact(t) ==
    /\ threads[t].pc = "line 36"
    /\ threads' = [threads EXCEPT ![t].pc = "line 38"]
    /\ UNCHANGED <<instance, pipeline, artifact, pc, loc, hist, last>>

\* lines 39-41: self.pipeline = data["pipeline"]; return
AdoptPipeline(t) ==
    /\ threads[t].pc = "line 38"
    /\ pipeline' = IF threads[t].self_is_instance
                   THEN pipeline_after_load(artifact) ELSE pipeline
    /\ hist' = [hist EXCEPT !.load = "loaded"]
    /\ threads' = [threads EXCEPT ![t].pc = "line 30"]
    /\ UNCHANGED <<instance, artifact, pc, loc, last>>

\* line 30: return cls._instance
ReturnInstance(t) ==
    /\ threads[t].pc = "line 30"
    /\ threads' = [threads EXCEPT
                      ![t].pc = "returned",
                      ![t].handed = [returned |-> TRUE,
                                     unset |-> not_pipeline(pipeline),
                                     loading |-> loading_elsewhere(t)]]
    /\ UNCHANGED <<instance, pipeline, artifact, pc, loc, hist, last>>

ThreadsNext ==
    \E t \in Threads :
        \/ CheckInstance(t)
        \/ CreateInstance(t)
        \/ ClearPipeline(t)
        \/ EnterLoadOrTrain(t)
        \/ LoadArtifact(t)
        \/ AdoptPipeline(t)
        \/ ReturnInstance(t)

SpecThreads == ThreadsInit /\ [][ThreadsNext]_vars

\* ----------------------------------------------------------------- claims

\* the store, as opposed to the outcome handed to the caller
store == <<instance, pipeline, artifact, pc, loc, hist>>

\* predict returned a (category, confidence) for a non-empty feature text
PredictAnswered ==
    last.op = "predict" /\ last.raised = "none" /\ last.text # <<>>

\* the largest probability of a distribution
MaxProbability(proba) ==
    CHOOSE x \in {proba[i] : i \in DOMAIN proba} : \A j \in DOMAIN proba : proba[j] <= x

\* c is a class of the store's pipeline to which proba gives the largest probability
IsMostProbableClass(c, proba) ==
    \E i \in DOMAIN proba :
        /\ pipeline.classes[i] = c
        /\ proba[i] = MaxProbability(proba)

\* the raw confidence times 0.70, 0.85 or 1, in units of 1/(100 * ProbUnits)
Discounted(raw, tokens) ==
    IF tokens = 1 THEN raw * 70 ELSE IF tokens = 2 THEN raw * 85 ELSE raw * 100

\* C1: for a non-empty feature text and a store holding a pipeline, predict
\* returns "Other" when the confidence it returns is strictly below 0.40 and
\* the class of maximum probability otherwise, also at exactly 0.40; a raw
\* confidence of 0.35 on a text of three or more tokens yields ("Other", 0.35).
C1_ThresholdDecision ==
    PredictAnswered =>
        /\ last.confidence < 40 * ProbUnits => last.category = CatchAll
        /\ last.confidence >= 40 * ProbUnits =>
              IsMostProbableClass(last.category, last.proba)
        /\ (word_count(last.text) >= 3
              /\ MaxProbability(last.proba) * 100 = 35 * ProbUnits) =>
              (last.category = CatchAll /\ last.confidence = 35 * ProbUnits)

C1_Witness ==
    /\ PredictAnswered
    /\ word_count(last.text) >= 3
    /\ MaxProbability(last.proba) * 100 = 35 * ProbUnits
    /\ last.category = CatchAll
    /\ last.confidence = 35 * ProbUnits

\* C2: the confidence predict returns for a non-empty feature text is the raw
\* maximum probability times 0.70 for one token, 0.85 for two tokens and 1 for
\* three or more; it never exceeds the raw confidence and lies in [0, 1].
C2_LengthDiscount ==
    PredictAnswered =>
        LET raw == MaxProbability(last.proba) IN
        /\ last.confidence = Discounted(raw, word_count(last.text))
        /\ last.confidence <= raw * 100
        /\ 0 <= last.confidence /\ last.confidence <= 100 * ProbUnits

C2_Witness ==
    /\ PredictAnswered
    /\ word_count(last.text) = 2
    /\ MaxProbability(last.proba) = ProbUnits
    /\ last.confidence = 85 * ProbUnits
    /\ last.category # CatchAll

\* C3: with a pipeline in the store and an empty feature text, predict returns
\* exactly ("Other", 0.0) and never calls predict_proba.
C3_EmptyTextShortCircuit ==
    (last.op = "predict" /\ pipeline # NoPipeline /\ last.text = <<>>) =>
        /\ last.raised = "none"
        /\ last.category = CatchAll
        /\ last.confidence = 0
        /\ last.probaCalls = 0

C3_Witness ==
    /\ last.op = "predict"
    /\ pipeline # NoPipeline
    /\ last.text = <<>>
    /\ last.text = combine(<<"!">>, NoneText)
    /\ last.category = CatchAll
    /\ last.confidence = 0
    /\ last.probaCalls = 0

\* C4: while the store holds no pipeline, every predict and every
\* get_top_predictions call raises the model-not-ready error, for an empty
\* feature text too, and leaves the store unchanged.
C4_NotReady ==
    [][(/\ last = NoOutcome
        /\ last'.op \in {"predict", "get_top_predictions"}
        /\ pipeline = NoPipeline)
       => (last'.raised = "RuntimeError" /\ UNCHANGED store)]_vars

C4_Witness ==
    /\ last.op = "predict"
    /\ last.raised = "RuntimeError"
    /\ last.text = <<>>
    /\ instance
    /\ pipeline = NoPipeline

\* C5: over any series of CategoryClassifier() and get_classifier() calls the
\* load/train sequence runs at most once, on the first call, whether it
\* succeeded or raised; once the instance exists no call loads or trains again.
C5_LoadAtMostOnce ==
    [][/\ hist'.loadRuns <= 1
       /\ hist'.trainRuns <= 1
       /\ instance => /\ instance'
                      /\ hist'.loadRuns = hist.loadRuns
                      /\ hist'.trainRuns = hist.trainRuns]_vars

C5_Witness ==
    /\ last.op = "get_classifier"
    /\ last.raised = "none"
    /\ hist.loadRuns = 1
    /\ hist.train \notin {"none", "running", "ok"}

\* the artifact is a readable bundle with a pipeline and a recorded accuracy
Loadable(a) == a.kind = "bundle" /\ a.pipeline # NoPipeline /\ a.accuracy # NoKey

\* C6: when the artifact exists and loads on first access, the store adopts
\* its pipeline, whatever the recorded accuracy; the trainer is never invoked
\* and the artifact is never rewritten.
C6_LoadIfPresent ==
    [][/\ (~instance /\ instance' /\ Loadable(artifact)) =>
            /\ pipeline' = artifact.pipeline
            /\ pc' = "idle"
            /\ last'.raised = "none"
            /\ hist'.load = "loaded"
       /\ hist'.load = "loaded" =>
            /\ hist'.trainRuns = 0
            /\ hist'.dump = "none"
            /\ artifact' = artifact
            /\ pipeline' = artifact.pipeline]_vars

C6_Witness ==
    /\ hist.load = "loaded"
    /\ artifact.accuracy = 0
    /\ pipeline = artifact.pipeline
    /\ pipeline = PriorPipeline
    /\ hist.trainRuns = 0

\* C7: when on first access the artifact is missing or its load raises, no
\* load error reaches the caller and the trainer is invoked; when that
\* training succeeds the store holds the freshly trained pipeline and the
\* artifact on disk is the bundle of that pipeline.
C7_FallBackToTraining ==
    [][/\ (~instance /\ instance' /\ ~Loadable(artifact)) =>
            /\ pc' = "read"
            /\ hist'.trainRuns = 1
            /\ last' = NoOutcome
       /\ (pc = "save" /\ hist'.train = "ok") =>
            /\ pipeline' = loc.best_pipeline
            /\ pipeline'.origin = "trained"
            /\ artifact'.kind = "bundle"
            /\ artifact'.pipeline = pipeline']_vars

C7_Witness ==
    /\ hist.load = "failed"
    /\ hist.train = "ok"
    /\ pipeline.origin = "trained"
    /\ artifact.kind = "bundle"
    /\ artifact.pipeline = pipeline

\* C8: when the candidates were fitted and the best one selected but writing
\* the artifact failed, the store still holds the fitted best pipeline, so a
\* later predict call does not fail.
C8_WriteFailureKeepsPipeline ==
    hist.dump = "failed" =>
        /\ pipeline # NoPipeline
        /\ pipeline.origin = "trained"
        /\ last.op = "predict" => last.raised = "none"

\* the dataset that was read is unreadable or lacks a required column
BadDataset(d) ==
    d.read /\ (~d.readable \/ ~({"description", "merchant", "category"} \subseteq d.columns))

\* C9: when the dataset cannot be read or lacks one of description, merchant,
\* category, training raises before any candidate is fitted and changes
\* neither the artifact nor the store's pipeline.
C9_BadDatasetAborts ==
    [][(pc = "read" /\ BadDataset(hist'.dataset)) =>
          /\ last'.raised \in {"read_csv", "columns"}
          /\ pc' = "idle"
          /\ ~hist'.split
          /\ hist'.fits = 0
          /\ hist'.dump = "none"
          /\ artifact' = artifact
          /\ pipeline' = pipeline]_vars

C9_Witness ==
    /\ last.raised = "columns"
    /\ hist.dataset.columns = {"description", "merchant"}
    /\ hist.fits = 0
    /\ ~hist.split
    /\ pc = "idle"

\* a complete dataset was read and fewer than two categories survive the filters
TooFewClasses ==
    /\ hist.dataset.read
    /\ hist.dataset.readable
    /\ {"description", "merchant", "category"} \subseteq hist.dataset.columns
    /\ hist.dataset.classes < 2

\* the errors that come out of a scikit-learn call, not out of the trainer
LibraryErrors == {"train_test_split", "fit", "cross_val_score"}

\* C10: when fewer than two categories remain after the filters, training
\* fails with an error the trainer itself raises, before the dataset is split
\* or a candidate is fitted, and no artifact is written.
C10_InsufficientData ==
    TooFewClasses =>
        /\ pc = "idle"
        /\ hist.train \notin {"none", "running", "ok"}
        /\ hist.train \notin LibraryErrors
        /\ ~hist.split
        /\ hist.fits = 0
        /\ hist.dump = "none"

\* a dataset's rows once the rows of the categories cs are taken out
without_categories(rows, cs) ==
    [r \in DOMAIN rows |-> IF category_label(r.category) \in cs THEN 0 ELSE rows[r]]

\* the datasets that can be read and have the three required columns
CompleteDatasets ==
    {ds \in Datasets :
        ds.readable /\ {"description", "merchant", "category"} \subseteq ds.columns}

\* for every dataset the trainer can read, the rows of the weak categories
\* decide neither which classes survive nor how many rows are split, and two
\* categories surviving beside a weak one are enough for the split
WeakRowsAreInert ==
    \A ds \in CompleteDatasets :
        LET weak == weak_classes(ds.rows)
            rest == without_categories(ds.rows, weak)
            k    == Cardinality(strong_classes(ds.rows))
        IN  /\ strong_classes(rest) = strong_classes(ds.rows)
            /\ training_rows(rest) = training_rows(ds.rows)
            /\ (weak # {} /\ k = 2) => ~split_raises(training_rows(ds.rows), k)

C12_BestCandidateRetained ==
    pc = "save" =>
        /\ loc.best_pipeline # NoPipeline
        /\ loc.best_pipeline.origin = "trained"
        /\ loc.best_pipeline.seed \in BASE_SEED..(BASE_SEED + N_TRAINING_ITERATIONS - 1)
        /\ loc.best_cv_score = loc.cv_max
        /\ loc.best_pipeline.seed = BASE_SEED + N_TRAINING_ITERATIONS - 1 =>
              (loc.best_accuracy = loc.test_acc /\ loc.best_cv_score = loc.cv_mean)

\* C13: the step that ends a training run successfully writes an artifact
\* that is exactly the bundle of the selected candidate's pipeline, accuracy
\* and cross-validation mean, whatever was there before, and gives the store
\* that same pipeline; from then on the store's pipeline is the artifact's.
C13_ArtifactIsSelectedBundle ==
    [][(pc = "save" /\ hist'.train = "ok") =>
          /\ loc.best_pipeline # NoPipeline
          /\ artifact' = [kind |-> "bundle", pipeline |-> loc.best_pipeline,
                          accuracy |-> loc.best_accuracy, cv_score |-> loc.best_cv_score]
          /\ pipeline' = artifact'.pipeline
          /\ hist'.dump = "ok"]_vars

\* a run that found an unusable artifact of another pipeline and replaced it
C13_Witness ==
    /\ hist.train = "ok"
    /\ hist.load = "failed"
    /\ pipeline.origin = "trained"
    /\ artifact = [kind |-> "bundle", pipeline |-> pipeline,
                   accuracy |-> MaxAccScore, cv_score |-> MaxCvScore]
    /\ last = Outcome("CategoryClassifier", "none")

\* a call of _clean_text has returned
CleanReturned == pc = "idle" /\ last.op = "_clean_text"

\* the text has a letter or a digit in it
HasLetterOrDigit(text) ==
    \E i \in DOMAIN text :
        \/ text[i] \in LowerLetters \cup Digits
        \/ \E j \in DOMAIN UpperCase : UpperCase[j] = text[i]

\* no space at either end and no two spaces side by side
SingleSpaced(text) ==
    /\ text # <<>> => (text[1] # " " /\ text[Len(text)] # " ")
    /\ \A i \in 1..(Len(text) - 1) : ~(text[i] = " " /\ text[i + 1] = " ")

C15_CleanTextIdempotent ==
    (CleanReturned /\ Len(last.args) = 2) => last.value = last.args[2]

C15_Witness ==
    /\ CleanReturned
    /\ Len(last.args) = 2
    /\ last.args[1] = <<"!", "B", " ">>
    /\ last.args[2] = <<"b">>
    /\ last.value = <<"b">>

\* text is what is left of joined once the spaces at its two ends are cut
TrimmedOf(text, joined) ==
    /\ text # <<>> => (text[1] # " " /\ text[Len(text)] # " ")
    /\ \E i \in 1..(Len(joined) + 1), j \in 0..Len(joined) :
          /\ text = SubSeq(joined, i, j)
          /\ \A k \in 1..Len(joined) : (k < i \/ k > j) => joined[k] = " "

\* C16: _combine returns the normalized description, the normalized
\* description again and the normalized merchant, joined by single spaces
\* and then trimmed: no space at either end and no two spaces side by side,
\* also when the description or the merchant normalizes to the empty text;
\* ("coffee", "Starbucks") gives "coffee coffee starbucks".
C16_CombineShape ==
    /\ (pc = "idle" /\ last.op = "_combine") =>
          LET d == clean_text(last.args[1])
              m == clean_text(last.args[2])
          IN  /\ TrimmedOf(last.value, d \o <<" ">> \o d \o <<" ">> \o m)
              /\ SingleSpaced(last.value)
    /\ combine(<<"c", "o", "f", "f", "e", "e">>,
               <<"S", "t", "a", "r", "b", "u", "c", "k", "s">>)
          = <<"c", "o", "f", "f", "e", "e", " ", "c", "o", "f", "f", "e", "e", " ",
              "s", "t", "a", "r", "b", "u", "c", "k", "s">>

\* the description normalizes to the empty text, the merchant does not
C16_Witness ==
    /\ pc = "idle"
    /\ last.op = "_combine"
    /\ last.args = << <<"!">>, <<"B", "7">> >>
    /\ last.value = <<"b", "7">>

\* get_top_predictions returned a list
TopAnswered == last.op = "get_top_predictions" /\ last.raised = "none"

\* C17: for a non-empty feature text and a top_n from 0 up to the number of
\* classes, get_top_predictions returns exactly top_n entries, in order of
\* non-increasing probability; for an empty feature text it returns the
\* single entry ("Other", 0.0) whatever top_n is.
C17_TopNEntries ==
    TopAnswered =>
        IF last.text = <<>>
        THEN last.top = << <<CatchAll, 0>> >>
        ELSE last.top_n <= Len(pipeline.classes) =>
                /\ Len(last.top) = last.top_n
                /\ \A i, j \in DOMAIN last.top : i < j => last.top[i][2] >= last.top[j][2]

\* C18: get_top_predictions applies neither the length discount nor the
\* threshold: every entry it returns for a non-empty feature text bears a
\* class of the pipeline and that class's raw probability, whatever the
\* number of tokens, also when the probability is below 0.40.
C18_TopRawProbabilities ==
    (TopAnswered /\ last.text # <<>>) =>
        \A i \in DOMAIN last.top :
            /\ last.top[i][1] # CatchAll
            /\ \E j \in DOMAIN pipeline.classes :
                  /\ last.top[i][1] = pipeline.classes[j]
                  /\ last.top[i][2] = last.proba[j] * 100

\* a one-token text whose most probable class has a probability below 0.40
C18_Witness ==
    /\ TopAnswered
    /\ word_count(last.text) = 1
    /\ last.top_n = 2
    /\ Len(last.top) = 2
    /\ last.top[1][1] \in Labels
    /\ last.top[1][2] = 35 * ProbUnits
    /\ last.top[2][2] = 35 * ProbUnits

C20_ClassLabelsWellFormed ==
    pc \in {"fit", "save"} =>
        \A c \in loc.classes :
            /\ c # ""
            /\ ~IsWhitespace(c)
            /\ c # "nan"

\* add_expense got an answer from predict
ExpenseAnswered == last.op = "add_expense" /\ last.raised \in {"none", "commit"}

\* C21: when an expense is created and predict has answered, the category
\* of the new row is the user's when the user sent one and the predicted
\* label otherwise, and its predicted_category is the predicted label alone,
\* a text value and not the (category, confidence) pair.
C21_StoredCategoryIsLabel ==
    ExpenseAnswered =>
        /\ last.predicted_column = <<last.category>>
        /\ last.category_column =
              IF last.user_category # "" THEN <<last.user_category>> ELSE <<last.category>>

\* the load/train sequence has ended by raising to the caller
SequenceRaised == pc = "idle" /\ hist.train \notin {"none", "running", "ok"}

\* C22: when the first-access load/train sequence has ended by raising, the
\* retained instance holds no pipeline, and every later predict call raises
\* the model-not-ready error instead of answering.
C22_NoPipelineAfterFailure ==
    SequenceRaised =>
        /\ pipeline = NoPipeline
        /\ last.op = "predict" => last.raised = "RuntimeError"

\* C23: when the threads make the first access together, at most one
\* load/train sequence is started, and no thread is handed an instance whose
\* pipeline is unset while another thread is loading or training.
C23_OneSequenceUnderRace ==
    /\ hist.loadRuns <= 1
    /\ \A t \in DOMAIN threads :
          ~(threads[t].handed.returned /\ threads[t].handed.unset
              /\ threads[t].handed.loading)

\* _combine returned a feature text
CombineReturned == pc = "idle" /\ last.op = "_combine"

\* C24: the feature text has twice the tokens of the normalized description
\* plus the tokens of the normalized merchant; so a non-empty feature text
\* gets the one-token factor only when the description normalizes to empty
\* and the merchant to one token, and a one-word description with an empty
\* merchant gets the two-token factor.
C24_TokenCount ==
    CombineReturned =>
        LET d == clean_text(last.args[1])
            m == clean_text(last.args[2])
            text == last.value
        IN  /\ word_count(text) = 2 * word_count(d) + word_count(m)
            /\ (text # <<>> /\ discount(text) = ONE_WORD_FACTOR)
                  => (d = <<>> /\ word_count(m) = 1)
            /\ (word_count(d) = 1 /\ m = <<>>) => discount(text) = TWO_WORD_FACTOR

\* "B" alone as description, no merchant: "a a", two tokens
C24_Witness ==
    /\ CombineReturned
    /\ last.args = << <<"B">>, <<>> >>
    /\ last.value = <<"b", " ", "b">>
    /\ discount(last.value) = TWO_WORD_FACTOR

\* C25: for a non-empty feature text and top_n >= 1, the category of the
\* first entry of get_top_predictions is the class predict takes as its raw
\* prediction, classes_[np.argmax(proba)], ties for the maximum included.
C25_TopIsRawPrediction ==
    (TopAnswered /\ last.text # <<>> /\ last.top_n >= 1) =>
        last.top[1][1] = pipeline.classes[np_argmax(last.proba)]

====
